---------------------------- MODULE Spec2Model ----------------------------
(***************************************************************************)
(* Model of the SSL certificate exporter (src/main.go).                    *)
(*                                                                         *)
(* Strings are sequences of symbols.  A symbol is one character, except    *)
(* that the text of a date is kept as one symbol (time.Parse is modelled   *)
(* by a table over whole date texts, see TimeParse).  Instants are counted *)
(* in days since January 1 of year 1, the origin of Go's time.Time, so the *)
(* zero instant is 0 and Unix() is a real conversion (all dates of the     *)
(* table are at midnight UTC; one day is 86400 seconds).                   *)
(***************************************************************************)
EXTENDS Integers, Sequences, FiniteSets, TLC

(***************************************************************************)
(* Bounds of the model.                                                    *)
(***************************************************************************)
MaxLineLen == 2
MaxLines == 2
MaxOutLines == 3

(***************************************************************************)
(* strings package                                                         *)
(***************************************************************************)
Space == {" ", "\t", "\n", "\r"}

IsSpace(c) == c \in Space

HasPrefix(s, p) == Len(s) >= Len(p) /\ SubSeq(s, 1, Len(p)) = p

TrimPrefix(s, p) == IF HasPrefix(s, p) THEN SubSeq(s, Len(p) + 1, Len(s)) ELSE s

RECURSIVE TrimLeft(_)
TrimLeft(s) == IF s # <<>> /\ IsSpace(Head(s)) THEN TrimLeft(Tail(s)) ELSE s

RECURSIVE TrimRight(_)
TrimRight(s) ==
    IF s # <<>> /\ IsSpace(s[Len(s)]) THEN TrimRight(SubSeq(s, 1, Len(s) - 1)) ELSE s

TrimSpace(s) == TrimRight(TrimLeft(s))

\* Index of the first sep in s, 0 when there is none (strings.Index + 1).
RECURSIVE IndexFrom(_, _, _)
IndexFrom(s, sep, i) ==
    IF i > Len(s) THEN 0
    ELSE IF s[i] = sep THEN i
    ELSE IndexFrom(s, sep, i + 1)

Index(s, sep) == IndexFrom(s, sep, 1)

\* strings.Split(s, sep): always at least one element, a trailing sep gives a
\* trailing empty string.
RECURSIVE Split(_, _)
Split(s, sep) ==
    LET i == Index(s, sep)
    IN  IF i = 0 THEN <<s>>
        ELSE <<SubSeq(s, 1, i - 1)>> \o Split(SubSeq(s, i + 1, Len(s)), sep)

(***************************************************************************)
(* bufio.Scanner with the default split function, bufio.ScanLines          *)
(***************************************************************************)
DropCR(s) == IF s # <<>> /\ s[Len(s)] = "\r" THEN SubSeq(s, 1, Len(s) - 1) ELSE s

\* The tokens scanner.Scan() yields over data: the text before each newline
\* without a trailing carriage return, and the unterminated rest when it is
\* not empty.
RECURSIVE ScanLines(_)
ScanLines(data) ==
    IF data = <<>> THEN <<>>
    ELSE LET i == Index(data, "\n")
         IN  IF i = 0 THEN <<DropCR(data)>>
             ELSE <<DropCR(SubSeq(data, 1, i - 1))>>
                      \o ScanLines(SubSeq(data, i + 1, Len(data)))

(***************************************************************************)
(* readDomains                                                             *)
(***************************************************************************)
Hash == <<"#">>

\* A readDomains that forgets the comment test.
KeepLineNoComment(line) == line # <<>>

\* if line != "" && !strings.HasPrefix(line, "#")
KeepLine(line) == line # <<>> /\ ~HasPrefix(line, Hash)

\* The scan loop: domains = append(domains, line) for each kept line.
RECURSIVE ScanLoop(_, _)
ScanLoop(tokens, domains) ==
    IF tokens = <<>> THEN domains
    ELSE LET line == TrimSpace(Head(tokens))
         IN  ScanLoop(Tail(tokens),
                      IF KeepLine(line) THEN Append(domains, line) ELSE domains)

\* io is what the file system does: "ok", "openErr" (os.Open fails) or
\* "readErr" (scanner.Err() is not nil after the loop).
ReadDomains(data, io) ==
    IF io = "openErr" THEN [domains |-> <<>>, err |-> TRUE]
    ELSE LET domains == ScanLoop(ScanLines(data), <<>>)
         IN  IF io = "readErr" THEN [domains |-> <<>>, err |-> TRUE]
             ELSE [domains |-> domains, err |-> FALSE]

IoOutcomes == {"ok", "openErr", "readErr"}

(***************************************************************************)
(* time.Parse and Time.Unix                                                *)
(***************************************************************************)
\* The date texts the model knows, in the layout "Jan 2 15:04:05 2006 MST",
\* with the instant each denotes (days since January 1 of year 1).
DateTable ==
    [t \in {"Jan  1 00:00:00 2024 GMT", "Apr  1 00:00:00 2024 GMT",
            "Jan  1 00:00:00 2025 GMT", "Apr  1 00:00:00 2025 GMT"} |->
        CASE t = "Jan  1 00:00:00 2024 GMT" -> 738885
          [] t = "Apr  1 00:00:00 2024 GMT" -> 738976
          [] t = "Jan  1 00:00:00 2025 GMT" -> 739251
          [] t = "Apr  1 00:00:00 2025 GMT" -> 739341]

\* time.Time{}: the zero instant.
ZeroTime == 0

\* time.Parse(layout, s): the instant of a date text of the table; any other
\* text (empty, malformed, a date followed by more text) is an error, and the
\* instant returned with an error is the zero instant.
TimeParse(s) ==
    IF Len(s) = 1 /\ s[1] \in DOMAIN DateTable
    THEN [t |-> DateTable[s[1]], err |-> FALSE]
    ELSE [t |-> ZeroTime, err |-> TRUE]

\* Days from January 1 of year 1 to January 1, 1970.
UnixEpochDays == 719162

\* t.Unix(), in days.
Unix(t) == t - UnixEpochDays

(***************************************************************************)
(* getSSLCertDates                                                         *)
(***************************************************************************)
NotBefore == <<"n", "o", "t", "B", "e", "f", "o", "r", "e", "=">>

NotAfter == <<"n", "o", "t", "A", "f", "t", "e", "r", "=">>

\* A loop that keeps the first date of each prefix instead of the last.
RECURSIVE ParseLoopFirstWins(_, _, _)
ParseLoopFirstWins(lines, start, expiry) ==
    IF lines = <<>> THEN [start |-> start, expiry |-> expiry, err |-> FALSE]
    ELSE LET line == Head(lines)
         IN  IF HasPrefix(line, NotBefore)
             THEN LET r == TimeParse(TrimPrefix(line, NotBefore))
                  IN  IF r.err
                      THEN [start |-> r.t, expiry |-> expiry, err |-> TRUE]
                      ELSE ParseLoopFirstWins(Tail(lines),
                               IF start = ZeroTime THEN r.t ELSE start, expiry)
             ELSE IF HasPrefix(line, NotAfter)
             THEN LET r == TimeParse(TrimPrefix(line, NotAfter))
                  IN  IF r.err
                      THEN [start |-> start, expiry |-> r.t, err |-> TRUE]
                      ELSE ParseLoopFirstWins(Tail(lines), start,
                               IF expiry = ZeroTime THEN r.t ELSE expiry)
             ELSE ParseLoopFirstWins(Tail(lines), start, expiry)

\* The loop over the lines of the output; start and expiry are the named
\* results, overwritten by each matching line.
RECURSIVE ParseLoop(_, _, _)
ParseLoop(lines, start, expiry) ==
    IF lines = <<>> THEN [start |-> start, expiry |-> expiry, err |-> FALSE]
    ELSE LET line == Head(lines)
         IN  IF HasPrefix(line, NotBefore)
             THEN LET r == TimeParse(TrimPrefix(line, NotBefore))
                  IN  IF r.err
                      THEN [start |-> r.t, expiry |-> expiry, err |-> TRUE]
                      ELSE ParseLoop(Tail(lines), r.t, expiry)
             ELSE IF HasPrefix(line, NotAfter)
             THEN LET r == TimeParse(TrimPrefix(line, NotAfter))
                  IN  IF r.err
                      THEN [start |-> start, expiry |-> r.t, err |-> TRUE]
                      ELSE ParseLoop(Tail(lines), start, r.t)
             ELSE ParseLoop(Tail(lines), start, expiry)

\* A getSSLCertDates that does not look at the error of the pipeline.
GetSSLCertDatesNoErrCheck(exec) == ParseLoop(Split(exec.out, "\n"), ZeroTime, ZeroTime)

\* A getSSLCertDates that reports an output without a notBefore= date as an
\* error.
GetSSLCertDatesStrict(exec) ==
    IF exec.err THEN [start |-> ZeroTime, expiry |-> ZeroTime, err |-> TRUE]
    ELSE LET r == ParseLoop(Split(exec.out, "\n"), ZeroTime, ZeroTime)
         IN  IF r.start = ZeroTime THEN [r EXCEPT !.err = TRUE] ELSE r

\* exec is what exec.Command(...).Output() returned: err is set when bash
\* could not be run or the pipeline exited non-zero, out is its standard
\* output.
GetSSLCertDates(exec) ==
    IF exec.err THEN [start |-> ZeroTime, expiry |-> ZeroTime, err |-> TRUE]
    ELSE ParseLoop(Split(exec.out, "\n"), ZeroTime, ZeroTime)

\* strings.Join(lines, sep)
RECURSIVE Join(_, _)
Join(lines, sep) ==
    IF lines = <<>> THEN <<>>
    ELSE IF Len(lines) = 1 THEN lines[1]
    ELSE lines[1] \o sep \o Join(Tail(lines), sep)

\* Sequences over S of length at most n.
SeqUpTo(S, n) == UNION {[1..k -> S] : k \in 0..n}

(***************************************************************************)
(* The process: main, the refresh goroutine and the metrics handler        *)
(***************************************************************************)
\* The six hours of time.Sleep, in ticks of one hour.
Interval == 6

Tasks == {"main", "bg"}

\* The config files the process is started on: "a\nb\n" and
\* "a\n#b\n a\n" (the domain a twice).
MainFiles ==
    { <<"a", "\n", "b", "\n">>,
      <<"a", "\n", "#", "b", "\n", " ", "a", "\n">> }

SeqRange(q) == {q[i] : i \in 1..Len(q)}

\* The label values a gauge can get: the domains of the config files.
Labels == UNION {SeqRange(ReadDomains(f, "ok").domains) : f \in MainFiles}

D1 == <<"Jan  1 00:00:00 2024 GMT">>

E1 == <<"Jan  1 00:00:00 2025 GMT">>

D2 == <<"Apr  1 00:00:00 2024 GMT">>

E2 == <<"Apr  1 00:00:00 2025 GMT">>

BadDate == <<"2", "0", "2", "4">>

ExecFailed == [err |-> TRUE, out |-> <<>>]

Newline == <<"\n">>

ExecOk(lines) == [err |-> FALSE, out |-> Join(lines, Newline)]

\* What the openssl pipeline returns to a probe of the running process: a
\* failure, no output at all, a certificate, and a date that does not parse.
MainExecResults ==
    { ExecFailed,
      ExecOk(<<>>),
      ExecOk(<<NotBefore \o D1, NotAfter \o E1, <<>>>>),
      ExecOk(<<NotBefore \o D1, NotAfter \o BadDate, <<>>>>) }

\* An optional value: no value, or one value.
None == {}

Some(v) == {v}

NoExec == [err |-> FALSE, out |-> <<>>]

NoWindow == [start |-> ZeroTime, expiry |-> ZeroTime]

Window(ret) == [start |-> ret.start, expiry |-> ret.expiry]

VARIABLES
    cfg,        \* the config file and what the file system does on reading it
    domains,    \* main's domains
    pc,         \* where each task is
    idx,        \* updateMetrics: position of the range loop (from 1)
    output,     \* getSSLCertDates: what exec returned to the current probe
    win,        \* updateMetrics: start and expiry of the current probe
    certStart,  \* the cert_start gauges, by label
    certExpiry, \* the cert_expiry gauges, by label
    slept,      \* hours the refresh goroutine has slept in its current sleep
    scrape,     \* the /metrics request in progress and what it has gathered
    trail,      \* history: the probes each task's current cycle has finished,
                \* each with what exec returned and the branch taken
    lastWin,    \* history: by domain, the window of its last successful probe
    pairs,      \* history: by domain, the windows of its successful probes
    fileIn,     \* readDomains alone: the file
    readRet,    \* readDomains alone: what it returned
    probeIn,    \* getSSLCertDates alone: the output lines
    probeRet    \* getSSLCertDates alone: what it returned

mainVars ==
    <<cfg, domains, pc, idx, output, win, certStart, certExpiry, slept, scrape,
      trail, lastWin, pairs>>

pureVars == <<fileIn, readRet, probeIn, probeRet>>

vars == <<mainVars, pureVars>>

NoScrape ==
    [active |-> FALSE, gotStart |-> FALSE, gotExpiry |-> FALSE,
     start |-> [d \in Labels |-> None], expiry |-> [d \in Labels |-> None]]

PureIdle ==
    /\ fileIn = [lines |-> <<>>, eol |-> <<"\n">>, finalNl |-> FALSE]
    /\ readRet = [done |-> FALSE, io |-> "ok", domains |-> <<>>, err |-> FALSE]
    /\ probeIn = <<>>
    /\ probeRet = [done |-> FALSE, exec |-> NoExec, start |-> ZeroTime,
                   expiry |-> ZeroTime, err |-> FALSE]

\* The process at its start: the gauge vectors registered and empty (init).
MainStart ==
    /\ domains = <<>>
    /\ pc = [t \in Tasks |-> IF t = "main" THEN "start" ELSE "none"]
    /\ idx = [t \in Tasks |-> 1]
    /\ output = [t \in Tasks |-> NoExec]
    /\ win = [t \in Tasks |-> NoWindow]
    /\ certStart = [d \in Labels |-> None]
    /\ certExpiry = [d \in Labels |-> None]
    /\ slept = 0
    /\ scrape = NoScrape
    /\ trail = [t \in Tasks |-> <<>>]
    /\ lastWin = [d \in Labels |-> None]
    /\ pairs = [d \in Labels |-> {}]

Init ==
    /\ cfg \in [data : MainFiles, io : IoOutcomes]
    /\ MainStart
    /\ PureIdle

Alive == pc["main"] # "exited"

Cur(t) == domains[idx[t]]

\* main: domains, err := readDomains(*configPath); log.Fatalf on an error,
\* else the call of updateMetrics(domains).
Load ==
    /\ pc["main"] = "start"
    /\ LET r == ReadDomains(cfg.data, cfg.io)
       IN  IF r.err
           THEN /\ pc' = [pc EXCEPT !["main"] = "exited"]
                /\ UNCHANGED domains
           ELSE /\ domains' = r.domains
                /\ pc' = [pc EXCEPT !["main"] = "update"]
    /\ UNCHANGED <<cfg, idx, output, win, certStart, certExpiry, slept, scrape,
                   trail, lastWin, pairs, pureVars>>

\* updateMetrics: the range loop takes the next domain and getSSLCertDates
\* starts the openssl pipeline on it.
ProbeStart(t) ==
    /\ Alive
    /\ pc[t] = "update"
    /\ idx[t] <= Len(domains)
    /\ pc' = [pc EXCEPT ![t] = "exec"]
    /\ UNCHANGED <<cfg, domains, idx, output, win, certStart, certExpiry, slept,
                   scrape, trail, lastWin, pairs, pureVars>>

\* An error branch that returns from updateMetrics instead of continuing.
ProbeFailedReturn(t, exec) ==
    /\ idx' = [idx EXCEPT ![t] = Len(domains) + 1]
    /\ pc' = [pc EXCEPT ![t] = "update"]
    /\ trail' = [trail EXCEPT ![t] =
                    Append(@, [domain |-> Cur(t), exec |-> exec, ok |-> FALSE])]
    /\ UNCHANGED <<output, win, certStart, certExpiry, lastWin, pairs>>

\* An error branch that deletes the gauges of the domain.
ProbeFailedEvict(t, exec) ==
    /\ idx' = [idx EXCEPT ![t] = @ + 1]
    /\ pc' = [pc EXCEPT ![t] = "update"]
    /\ trail' = [trail EXCEPT ![t] =
                    Append(@, [domain |-> Cur(t), exec |-> exec, ok |-> FALSE])]
    /\ certStart' = [certStart EXCEPT ![Cur(t)] = None]
    /\ certExpiry' = [certExpiry EXCEPT ![Cur(t)] = None]
    /\ UNCHANGED <<output, win, lastWin, pairs>>

\* updateMetrics, err != nil: the log line and continue.
ProbeFailed(t, exec) ==
    /\ idx' = [idx EXCEPT ![t] = @ + 1]
    /\ pc' = [pc EXCEPT ![t] = "update"]
    /\ trail' = [trail EXCEPT ![t] =
                    Append(@, [domain |-> Cur(t), exec |-> exec, ok |-> FALSE])]
    /\ UNCHANGED <<output, win, certStart, certExpiry, lastWin, pairs>>

\* updateMetrics, err == nil: on to the gauges with start and expiry.
ProbeSucceeded(t, exec, ret) ==
    /\ output' = [output EXCEPT ![t] = exec]
    /\ win' = [win EXCEPT ![t] = Window(ret)]
    /\ pc' = [pc EXCEPT ![t] = "withStart"]
    /\ trail' = [trail EXCEPT ![t] =
                    Append(@, [domain |-> Cur(t), exec |-> exec, ok |-> TRUE])]
    /\ lastWin' = [lastWin EXCEPT ![Cur(t)] = Some(Window(ret))]
    /\ pairs' = [pairs EXCEPT ![Cur(t)] = @ \cup {Window(ret)}]
    /\ UNCHANGED <<idx, certStart, certExpiry>>

\* The pipeline returns, getSSLCertDates parses its output and updateMetrics
\* takes one of its two branches.
ProbeReturn(t) ==
    /\ Alive
    /\ pc[t] = "exec"
    /\ \E exec \in MainExecResults :
          LET ret == GetSSLCertDates(exec)
          IN  IF ret.err THEN ProbeFailed(t, exec) ELSE ProbeSucceeded(t, exec, ret)
    /\ UNCHANGED <<cfg, domains, slept, scrape, pureVars>>

\* GaugeVec.With(labels): the gauge of the label, created with the value 0
\* when the vector has none yet.
With(vec, d) == IF vec[d] = None THEN [vec EXCEPT ![d] = Some(0)] ELSE vec

\* Gauge.Set(v) on the gauge of the label.
Set(vec, d, v) == [vec EXCEPT ![d] = Some(v)]

\* certStart.With(prometheus.Labels{"domain": domain})
WithStart(t) ==
    /\ Alive
    /\ pc[t] = "withStart"
    /\ certStart' = With(certStart, Cur(t))
    /\ pc' = [pc EXCEPT ![t] = "setStart"]
    /\ UNCHANGED <<cfg, domains, idx, output, win, certExpiry, slept, scrape,
                   trail, lastWin, pairs, pureVars>>

\* A first gauge that is set from the expiry.
SetStartFromExpiry(t) ==
    /\ Alive
    /\ pc[t] = "setStart"
    /\ certStart' = Set(certStart, Cur(t), Unix(win[t].expiry))
    /\ pc' = [pc EXCEPT ![t] = "withExpiry"]
    /\ UNCHANGED <<cfg, domains, idx, output, win, certExpiry, slept, scrape,
                   trail, lastWin, pairs, pureVars>>

\* .Set(float64(start.Unix()))
SetStart(t) ==
    /\ Alive
    /\ pc[t] = "setStart"
    /\ certStart' = Set(certStart, Cur(t), Unix(win[t].start))
    /\ pc' = [pc EXCEPT ![t] = "withExpiry"]
    /\ UNCHANGED <<cfg, domains, idx, output, win, certExpiry, slept, scrape,
                   trail, lastWin, pairs, pureVars>>

\* certExpiry.With(prometheus.Labels{"domain": domain})
WithExpiry(t) ==
    /\ Alive
    /\ pc[t] = "withExpiry"
    /\ certExpiry' = With(certExpiry, Cur(t))
    /\ pc' = [pc EXCEPT ![t] = "setExpiry"]
    /\ UNCHANGED <<cfg, domains, idx, output, win, certStart, slept, scrape,
                   trail, lastWin, pairs, pureVars>>

\* .Set(float64(expiry.Unix())), the log line, and the end of the iteration.
SetExpiry(t) ==
    /\ Alive
    /\ pc[t] = "setExpiry"
    /\ certExpiry' = Set(certExpiry, Cur(t), Unix(win[t].expiry))
    /\ pc' = [pc EXCEPT ![t] = "update"]
    /\ idx' = [idx EXCEPT ![t] = @ + 1]
    /\ output' = [output EXCEPT ![t] = NoExec]
    /\ win' = [win EXCEPT ![t] = NoWindow]
    /\ UNCHANGED <<cfg, domains, certStart, slept, scrape, trail, lastWin, pairs,
                   pureVars>>

\* A goroutine that ends after its first cycle.
UpdateReturnOnce(t) ==
    /\ Alive
    /\ pc[t] = "update"
    /\ idx[t] > Len(domains)
    /\ pc' = [pc EXCEPT ![t] = IF t = "main" THEN "go" ELSE "ended"]
    /\ slept' = IF t = "main" THEN slept ELSE 0
    /\ UNCHANGED <<cfg, domains, idx, output, win, certStart, certExpiry, scrape,
                   trail, lastWin, pairs, pureVars>>

\* updateMetrics returns, the range being over: main goes on to start the
\* goroutine, the goroutine to its next time.Sleep.
UpdateReturn(t) ==
    /\ Alive
    /\ pc[t] = "update"
    /\ idx[t] > Len(domains)
    /\ pc' = [pc EXCEPT ![t] = IF t = "main" THEN "go" ELSE "sleep"]
    /\ slept' = IF t = "main" THEN slept ELSE 0
    /\ UNCHANGED <<cfg, domains, idx, output, win, certStart, certExpiry, scrape,
                   trail, lastWin, pairs, pureVars>>

\* A goroutine whose loop updates before it sleeps.
GoUpdatesFirst ==
    /\ pc["main"] = "go"
    /\ pc["bg"] = "none"
    /\ pc' = [pc EXCEPT !["main"] = "listen", !["bg"] = "update"]
    /\ idx' = [idx EXCEPT !["bg"] = 1]
    /\ slept' = 0
    /\ trail' = [trail EXCEPT !["main"] = <<>>]
    /\ UNCHANGED <<cfg, domains, output, win, certStart, certExpiry, scrape,
                   lastWin, pairs, pureVars>>

\* main: go func() { for { time.Sleep(6 * time.Hour); updateMetrics(domains) } }()
Go ==
    /\ pc["main"] = "go"
    /\ pc["bg"] = "none"
    /\ pc' = [pc EXCEPT !["main"] = "listen", !["bg"] = "sleep"]
    /\ slept' = 0
    /\ trail' = [trail EXCEPT !["main"] = <<>>]
    /\ UNCHANGED <<cfg, domains, idx, output, win, certStart, certExpiry, scrape,
                   lastWin, pairs, pureVars>>

\* main: http.Handle and http.ListenAndServe, which serves, or fails to bind
\* and log.Fatal ends the process.
Listen ==
    /\ pc["main"] = "listen"
    /\ \E bound \in BOOLEAN :
          pc' = [pc EXCEPT !["main"] = IF bound THEN "serving" ELSE "exited"]
    /\ UNCHANGED <<cfg, domains, idx, output, win, certStart, certExpiry, slept,
                   scrape, trail, lastWin, pairs, pureVars>>

\* An hour of the goroutine's sleep passes.
Tick ==
    /\ Alive
    /\ pc["bg"] = "sleep"
    /\ slept < Interval
    /\ slept' = slept + 1
    /\ UNCHANGED <<cfg, domains, pc, idx, output, win, certStart, certExpiry,
                   scrape, trail, lastWin, pairs, pureVars>>

\* A sleep that returns before its six hours are over.
WakeEarly ==
    /\ Alive
    /\ pc["bg"] = "sleep"
    /\ pc' = [pc EXCEPT !["bg"] = "update"]
    /\ idx' = [idx EXCEPT !["bg"] = 1]
    /\ trail' = [trail EXCEPT !["bg"] = <<>>]
    /\ UNCHANGED <<cfg, domains, output, win, certStart, certExpiry, slept, scrape,
                   lastWin, pairs, pureVars>>

\* time.Sleep returns and the goroutine calls updateMetrics(domains).
Wake ==
    /\ Alive
    /\ pc["bg"] = "sleep"
    /\ slept = Interval
    /\ pc' = [pc EXCEPT !["bg"] = "update"]
    /\ idx' = [idx EXCEPT !["bg"] = 1]
    /\ trail' = [trail EXCEPT !["bg"] = <<>>]
    /\ UNCHANGED <<cfg, domains, output, win, certStart, certExpiry, slept, scrape,
                   lastWin, pairs, pureVars>>

\* A GET /metrics arrives at the server.
ScrapeBegin ==
    /\ pc["main"] = "serving"
    /\ ~scrape.active
    /\ scrape' = [NoScrape EXCEPT !.active = TRUE]
    /\ UNCHANGED <<cfg, domains, pc, idx, output, win, certStart, certExpiry,
                   slept, trail, lastWin, pairs, pureVars>>

\* promhttp.Handler(): the registry collects the cert_start vector.
GatherStart ==
    /\ Alive
    /\ scrape.active
    /\ ~scrape.gotStart
    /\ scrape' = [scrape EXCEPT !.gotStart = TRUE, !.start = certStart]
    /\ UNCHANGED <<cfg, domains, pc, idx, output, win, certStart, certExpiry,
                   slept, trail, lastWin, pairs, pureVars>>

\* promhttp.Handler(): the registry collects the cert_expiry vector.
GatherExpiry ==
    /\ Alive
    /\ scrape.active
    /\ ~scrape.gotExpiry
    /\ scrape' = [scrape EXCEPT !.gotExpiry = TRUE, !.expiry = certExpiry]
    /\ UNCHANGED <<cfg, domains, pc, idx, output, win, certStart, certExpiry,
                   slept, trail, lastWin, pairs, pureVars>>

\* The handler writes the response, both vectors collected.
ScrapeRespond ==
    /\ Alive
    /\ scrape.active
    /\ scrape.gotStart
    /\ scrape.gotExpiry
    /\ scrape' = NoScrape
    /\ UNCHANGED <<cfg, domains, pc, idx, output, win, certStart, certExpiry,
                   slept, trail, lastWin, pairs, pureVars>>

Next ==
    \/ Load
    \/ \E t \in Tasks : ProbeStart(t)
    \/ \E t \in Tasks : ProbeReturn(t)
    \/ \E t \in Tasks : WithStart(t)
    \/ \E t \in Tasks : SetStart(t)
    \/ \E t \in Tasks : WithExpiry(t)
    \/ \E t \in Tasks : SetExpiry(t)
    \/ \E t \in Tasks : UpdateReturn(t)
    \/ Go
    \/ Listen
    \/ Tick
    \/ Wake
    \/ ScrapeBegin
    \/ GatherStart
    \/ GatherExpiry
    \/ ScrapeRespond

Spec == Init /\ [][Next]_vars

\* The steps of main and the steps of the refresh goroutine.
MainNext ==
    \/ Load
    \/ ProbeStart("main")
    \/ ProbeReturn("main")
    \/ WithStart("main")
    \/ SetStart("main")
    \/ WithExpiry("main")
    \/ SetExpiry("main")
    \/ UpdateReturn("main")
    \/ Go
    \/ Listen

BgNext ==
    \/ Tick
    \/ Wake
    \/ ProbeStart("bg")
    \/ ProbeReturn("bg")
    \/ WithStart("bg")
    \/ SetStart("bg")
    \/ WithExpiry("bg")
    \/ SetExpiry("bg")
    \/ UpdateReturn("bg")

\* The process under a scheduler that lets main and the goroutine run, with
\* time passing and every pipeline returning.  No request comes: the steps
\* of a request change scrape alone, which no step of main or of the
\* goroutine reads beyond leaving it unchanged.
LiveNext == MainNext \/ BgNext

LiveSpec == Init /\ [][LiveNext]_vars /\ WF_vars(MainNext) /\ WF_vars(BgNext)

(***************************************************************************)
(* readDomains on its own, over every small file                           *)
(***************************************************************************)
FileChars == {"a", "#", " "}

FileLines == SeqUpTo(FileChars, MaxLineLen)

\* The bytes of a file of the given lines: the lines separated by the line
\* ending, which also ends the last line when finalNl is set.
FileData(f) == Join(f.lines, f.eol) \o (IF f.finalNl THEN f.eol ELSE <<>>)

\* The process variables stay as they are at the start on the first file.
MainFixed ==
    /\ cfg = [data |-> <<"a", "\n", "b", "\n">>, io |-> "ok"]
    /\ MainStart

InitRead ==
    /\ MainFixed
    /\ fileIn \in [lines : SeqUpTo(FileLines, MaxLines),
                   eol : {<<"\n">>, <<"\r", "\n">>},
                   finalNl : BOOLEAN]
    /\ readRet = [done |-> FALSE, io |-> "ok", domains |-> <<>>, err |-> FALSE]
    /\ probeIn = <<>>
    /\ probeRet = [done |-> FALSE, exec |-> NoExec, start |-> ZeroTime,
                   expiry |-> ZeroTime, err |-> FALSE]

RunReadDomains ==
    /\ ~readRet.done
    /\ \E io \in IoOutcomes :
          LET r == ReadDomains(FileData(fileIn), io)
          IN  readRet' = [done |-> TRUE, io |-> io, domains |-> r.domains,
                          err |-> r.err]
    /\ UNCHANGED <<mainVars, fileIn, probeIn, probeRet>>

SpecRead == InitRead /\ [][RunReadDomains]_vars

(***************************************************************************)
(* getSSLCertDates on its own, over every small output                     *)
(***************************************************************************)
\* The lines an output is made of: dates that parse and one that does not
\* under both prefixes, an empty line, a line of other text, and a prefix
\* that does not start its line.
ProbeLines ==
    { NotBefore \o D1, NotBefore \o D2, NotBefore \o BadDate,
      NotAfter \o E1, NotAfter \o E2,
      <<>>, <<"s", "u", "b", "j", "e", "c", "t", "=">>,
      <<" ">> \o NotBefore \o D2 }

InitProbe ==
    /\ MainFixed
    /\ fileIn = [lines |-> <<>>, eol |-> <<"\n">>, finalNl |-> FALSE]
    /\ readRet = [done |-> FALSE, io |-> "ok", domains |-> <<>>, err |-> FALSE]
    /\ probeIn \in SeqUpTo(ProbeLines, MaxOutLines)
    /\ probeRet = [done |-> FALSE, exec |-> NoExec, start |-> ZeroTime,
                   expiry |-> ZeroTime, err |-> FALSE]

RunGetSSLCertDates ==
    /\ ~probeRet.done
    /\ \E failed \in BOOLEAN :
          LET exec == [err |-> failed, out |-> Join(probeIn, Newline)]
              r == GetSSLCertDates(exec)
          IN  probeRet' = [done |-> TRUE, exec |-> exec, start |-> r.start,
                           expiry |-> r.expiry, err |-> r.err]
    /\ UNCHANGED <<mainVars, fileIn, readRet, probeIn>>

SpecProbe == InitProbe /\ [][RunGetSSLCertDates]_vars

(***************************************************************************)
(* Properties                                                              *)
(***************************************************************************)
Min(S) == CHOOSE x \in S : \A y \in S : x <= y

Max(S) == CHOOSE x \in S : \A y \in S : x >= y

\* A line without its surrounding white space, said without a loop: what
\* lies from its first to its last character that is not white space.
TrimmedForm(l) ==
    LET solid == {i \in 1..Len(l) : l[i] \notin Space}
    IN  IF solid = {} THEN <<>> ELSE SubSeq(l, Min(solid), Max(solid))

\* The lines of a file that name a domain.
WantedLines(lines) ==
    {i \in 1..Len(lines) :
        TrimmedForm(lines[i]) # <<>> /\ TrimmedForm(lines[i])[1] # "#"}

\* C1: on a file that is read without an error, readDomains returns exactly
\* the lines that, trimmed, are not empty and do not start with '#', each in
\* its trimmed form, in file order, duplicates kept: the k-th line wanted is
\* the k-th domain returned and there is no other domain.
C1_ReadDomainsExact ==
    (readRet.done /\ readRet.io = "ok") =>
        LET wanted == WantedLines(fileIn.lines)
        IN  /\ ~readRet.err
            /\ Len(readRet.domains) = Cardinality(wanted)
            /\ \A i \in wanted :
                  readRet.domains[Cardinality({j \in wanted : j <= i})]
                      = TrimmedForm(fileIn.lines[i])

\* readDomains has returned the same domain twice, from two lines that
\* differ in their white space.
C1_Witness ==
    /\ readRet.done
    /\ readRet.io = "ok"
    /\ Len(readRet.domains) = 2
    /\ readRet.domains[1] = readRet.domains[2]
    /\ fileIn.lines[1] # fileIn.lines[2]

\* The positions of the output lines that start with the prefix.
LinesWith(prefix) == {i \in 1..Len(probeIn) : HasPrefix(probeIn[i], prefix)}

\* The instant of the date text that follows the prefix in the last line
\* starting with it; the zero instant when no line starts with it.
LastDate(prefix) ==
    IF LinesWith(prefix) = {} THEN ZeroTime
    ELSE DateTable[probeIn[Max(LinesWith(prefix))][Len(prefix) + 1]]

\* C6: a probe that returns without an error returns as start the date of
\* the last notBefore= line of the output and as expiry the date of the last
\* notAfter= line, however many lines carry each prefix and whatever the
\* other lines are.
C6_LastOccurrenceWins ==
    (probeRet.done /\ ~probeRet.err) =>
        /\ probeRet.start = LastDate(NotBefore)
        /\ probeRet.expiry = LastDate(NotAfter)

\* A probe has returned the date of the second of two notBefore= lines with
\* different dates, next to a line with neither prefix.
C6_Witness ==
    /\ probeRet.done
    /\ ~probeRet.err
    /\ Cardinality(LinesWith(NotBefore)) = 2
    /\ probeIn[Min(LinesWith(NotBefore))] # probeIn[Max(LinesWith(NotBefore))]
    /\ probeRet.start = LastDate(NotBefore)
    /\ \E i \in 1..Len(probeIn) :
          ~HasPrefix(probeIn[i], NotBefore) /\ ~HasPrefix(probeIn[i], NotAfter)

CycleStates == {"update", "exec", "withStart", "setStart", "withExpiry", "setExpiry"}

WriteStates == {"withStart", "setStart", "withExpiry", "setExpiry"}

\* The domains the current cycle of a task has probed, in the order probed.
TrailDomains(t) == [i \in 1..Len(trail[t]) |-> trail[t][i].domain]

\* The domains a probe of the current cycle of a task has succeeded on.
Succeeded(t) == {trail[t][i].domain : i \in {j \in 1..Len(trail[t]) : trail[t][j].ok}}

LastProbe(t) == trail[t][Len(trail[t])]

\* C2: no probe failure ends a cycle early: a cycle is over (the range loop
\* is past the last domain, main has gone on, the goroutine sleeps again)
\* only with every domain of the list probed, in order, and when main's first
\* cycle is over the two vectors hold a gauge for exactly the domains a probe
\* of that cycle succeeded on.
C2_FailureNeverAbortsCycle ==
    /\ \A t \in Tasks :
          (pc[t] = "update" /\ idx[t] > Len(domains)) => TrailDomains(t) = domains
    /\ pc["bg"] = "sleep" => TrailDomains("bg") \in {<<>>, domains}
    /\ pc["main"] = "go" =>
          /\ TrailDomains("main") = domains
          /\ \A d \in Labels :
                /\ certStart[d] # None <=> d \in Succeeded("main")
                /\ certExpiry[d] # None <=> d \in Succeeded("main")

\* The first cycle is over: the probe of the first domain failed, the probe
\* of the second, another domain, succeeded, and only the second has gauges.
C2_Witness ==
    /\ pc["main"] = "go"
    /\ Len(trail["main"]) = 2
    /\ ~trail["main"][1].ok
    /\ trail["main"][2].ok
    /\ trail["main"][1].domain # trail["main"][2].domain
    /\ certStart[trail["main"][1].domain] = None
    /\ certExpiry[trail["main"][1].domain] = None
    /\ certStart[trail["main"][2].domain] # None
    /\ certExpiry[trail["main"][2].domain] # None

\* The step in which a probe of task t returns and fails.
FailStep(t) == Len(trail'[t]) = Len(trail[t]) + 1 /\ ~trail'[t][Len(trail'[t])].ok

\* C3: a step in which the probe of a domain fails changes neither gauge of
\* the domain, which, when a probe of the domain has succeeded before, hold
\* the start and expiry of the last probe that did; and no step removes a
\* gauge from a vector.
C3_FailureKeepsLastValues ==
    [][ /\ \A d \in Labels :
              /\ certStart[d] # None => certStart'[d] # None
              /\ certExpiry[d] # None => certExpiry'[d] # None
        /\ \A t \in Tasks :
              FailStep(t) =>
                 LET d == Cur(t)
                 IN  /\ certStart'[d] = certStart[d]
                     /\ certExpiry'[d] = certExpiry[d]
                     /\ \A w \in lastWin[d] :
                           /\ certStart'[d] = Some(Unix(w.start))
                           /\ certExpiry'[d] = Some(Unix(w.expiry))
      ]_vars

\* The goroutine's probe of a domain has just failed, and the gauges of the
\* domain hold the dates of its earlier successful probe.
C3_Witness ==
    /\ pc["bg"] = "update"
    /\ trail["bg"] # <<>>
    /\ ~LastProbe("bg").ok
    /\ \E w \in lastWin[LastProbe("bg").domain] :
          /\ w.start # ZeroTime
          /\ certStart[LastProbe("bg").domain] = Some(Unix(w.start))
          /\ certExpiry[LastProbe("bg").domain] = Some(Unix(w.expiry))

\* C4 as claimed: a probe whose pipeline fails or prints nothing fails.
C4_FailsOnErrorOrNoOutput ==
    \A t \in Tasks : \A i \in 1..Len(trail[t]) :
        (trail[t][i].exec.err \/ trail[t][i].exec.out = <<>>) => ~trail[t][i].ok

\* C4, amended: a probe whose pipeline fails (bash not run, or a non-zero
\* exit) fails, and updateMetrics is at the gauges only for a probe whose
\* pipeline did not fail and which it recorded as a success: it writes no gauge
\* for a failed probe.  A pipeline that exits zero with no output is no
\* failure.
C4_FailsOnExecError ==
    /\ \A t \in Tasks : \A i \in 1..Len(trail[t]) :
          trail[t][i].exec.err => ~trail[t][i].ok
    /\ \A t \in Tasks :
          pc[t] \in WriteStates =>
             /\ ~output[t].err
             /\ LastProbe(t).ok
             /\ LastProbe(t).exec = output[t]
             /\ LastProbe(t).domain = Cur(t)

\* The pipeline of a probe failed, the probe is recorded as failed and its
\* domain has no gauge.
C4_Witness ==
    \E t \in Tasks : \E i \in 1..Len(trail[t]) :
        /\ trail[t][i].exec.err
        /\ ~trail[t][i].ok
        /\ pc[t] = "update"
        /\ certStart[trail[t][i].domain] = None
        /\ certExpiry[trail[t][i].domain] = None

\* No line of the output starts with notBefore= or notAfter=.
NoPrefixLines(out) ==
    \A line \in SeqRange(Split(out, "\n")) :
        ~HasPrefix(line, NotBefore) /\ ~HasPrefix(line, NotAfter)

\* C7: when the pipeline succeeds and no line of its output carries a prefix,
\* the probe returns the zero instant twice and no error, updateMetrics takes
\* the success branch, and when it has set the second gauge both gauges of
\* the domain hold Unix() of the zero instant.
C7_NoPrefixPublishesZero ==
    [][ \A t \in Tasks :
          /\ ( /\ pc[t] = "exec"
               /\ pc'[t] # "exec"
               /\ ~LastProbe(t)'.exec.err
               /\ NoPrefixLines(LastProbe(t)'.exec.out) )
             => /\ LastProbe(t)'.ok
                /\ pc'[t] = "withStart"
                /\ win'[t] = [start |-> ZeroTime, expiry |-> ZeroTime]
          /\ ( /\ pc[t] = "setExpiry"
               /\ pc'[t] # "setExpiry"
               /\ Alive'
               /\ NoPrefixLines(output[t].out) )
             => /\ certStart'[Cur(t)] = Some(ZeroTime - UnixEpochDays)
                /\ certExpiry'[Cur(t)] = Some(ZeroTime - UnixEpochDays)
      ]_vars

\* A domain whose gauges held the dates of a certificate holds, after a
\* probe with an empty output, Unix() of the zero instant in both.
C7_Witness ==
    \E d \in Labels :
        /\ \E w \in pairs[d] : w.start # ZeroTime
        /\ lastWin[d] = Some([start |-> ZeroTime, expiry |-> ZeroTime])
        /\ certStart[d] = Some(-UnixEpochDays)
        /\ certExpiry[d] = Some(-UnixEpochDays)
        /\ \A t \in Tasks : pc[t] \notin WriteStates

ConfigUnreadable == ReadDomains(cfg.data, cfg.io).err

\* C5: the process starts in the order load, first cycle, goroutine, server:
\* a request is in progress only while main serves; main starts the goroutine
\* only after a first cycle over all domains and listens only after that;
\* the goroutine is in a cycle only with a sleep of the full interval behind
\* it; and on a config that cannot be read main ends with no domain probed,
\* no goroutine, no gauge and no request served.
C5_StartupOrder ==
    /\ [](/\ scrape.active => pc["main"] = "serving"
          /\ pc["main"] \in {"listen", "serving"} => pc["bg"] # "none"
          /\ pc["bg"] # "none" => pc["main"] \in {"listen", "serving", "exited"}
          /\ pc["bg"] \in CycleStates => slept = Interval
          /\ ConfigUnreadable =>
                /\ pc["main"] \in {"start", "exited"}
                /\ pc["bg"] = "none"
                /\ domains = <<>>
                /\ trail = [t \in Tasks |-> <<>>]
                /\ \A d \in Labels : certStart[d] = None /\ certExpiry[d] = None
                /\ ~scrape.active)
    /\ [][/\ (pc["main"] \notin CycleStates /\ pc'["main"] \in CycleStates) =>
                pc["main"] = "start" /\ ~ConfigUnreadable
          /\ pc'["main"] = "go" =>
                \/ pc["main"] = "go"
                \/ pc["main"] = "update" /\ TrailDomains("main") = domains
          /\ pc'["main"] = "listen" => pc["main"] \in {"go", "listen"}
          /\ pc'["main"] = "serving" => pc["main"] \in {"listen", "serving"}
          /\ (pc["bg"] = "sleep" /\ pc'["bg"] = "update") => slept = Interval
         ]_vars

\* A request is being served while the goroutine is still in its first
\* sleep, the gauges of the first cycle in place.
C5_Witness ==
    /\ pc["main"] = "serving"
    /\ scrape.active
    /\ pc["bg"] = "sleep"
    /\ trail["bg"] = <<>>
    /\ slept < Interval
    /\ \E d \in Labels : certStart[d] # None /\ certExpiry[d] # None

\* The values a snapshot can show for the gauges of a domain: the 0 of a
\* gauge just created, and what a successful probe of the domain found.
StartValues(d) == {0} \cup {Unix(w.start) : w \in pairs[d]}

ExpiryValues(d) == {0} \cup {Unix(w.expiry) : w \in pairs[d]}

Gathered == scrape.active /\ scrape.gotStart /\ scrape.gotExpiry

\* C8 as claimed: in the snapshot of a request, the start a probe of a domain
\* has written never comes with an expiry that is absent or of another probe:
\* the expiry is the one of a probe that found this start.
C8_NoHalfWrittenPair ==
    Gathered =>
        \A d \in Labels : \A w \in pairs[d] :
            scrape.start[d] = Some(Unix(w.start)) =>
                \E v \in pairs[d] :
                    /\ v.start = w.start
                    /\ scrape.expiry[d] = Some(Unix(v.expiry))

\* C8, amended: every single gauge a request has gathered is whole: it is
\* the 0 of a gauge just created or the value a successful probe of that
\* domain found for that gauge.  (The pair is not: see C8_Witness.)
C8_NoTornGauge ==
    scrape.active =>
        \A d \in Labels :
            /\ scrape.start[d] \subseteq StartValues(d)
            /\ scrape.expiry[d] \subseteq ExpiryValues(d)

\* A snapshot holds the start of a probe of a domain with an expiry that is
\* not of that probe: absent, or of an earlier probe.
C8_Witness ==
    /\ Gathered
    /\ \E d \in Labels : \E w \in pairs[d] :
          /\ w.start # ZeroTime
          /\ scrape.start[d] = Some(Unix(w.start))
          /\ scrape.expiry[d] # Some(Unix(w.expiry))

\* C10: probes run one at a time: at most one task is in a cycle, the task
\* in a cycle has probed the domains before its position, in list order, and
\* no other; the goroutine is in a cycle only after a sleep of the full
\* interval, and sleeps only with its previous cycle complete.
C10_SequentialProbes ==
    /\ Cardinality({t \in Tasks : pc[t] \in CycleStates}) <= 1
    /\ \A t \in Tasks :
          pc[t] \in CycleStates =>
             /\ idx[t] \in 1..(Len(domains) + 1)
             /\ Len(trail[t]) = IF pc[t] \in WriteStates THEN idx[t] ELSE idx[t] - 1
             /\ TrailDomains(t) = SubSeq(domains, 1, Len(trail[t]))
    /\ pc["bg"] \in CycleStates => slept = Interval
    /\ pc["bg"] = "sleep" => TrailDomains("bg") \in {<<>>, domains}

\* The goroutine, six hours slept, is in the probe of the second domain of
\* its second cycle or a later one.
C10_Witness ==
    /\ pc["bg"] = "exec"
    /\ idx["bg"] = 2
    /\ Len(trail["bg"]) = 1
    /\ slept = Interval
    /\ pc["main"] = "serving"

\* The goroutine is in the pipeline of a probe of the domain.
BgProbing(d) == pc["bg"] = "exec" /\ Cur("bg") = d

Windows == {NoWindow, [start |-> DateTable[D1[1]], expiry |-> DateTable[E1[1]]]}

\* C9: the process ends only at the load of the config or at the bind, never
\* at a probe; while it serves, whatever probes have failed, the goroutine
\* comes to probe every domain of the list again and again; and a probe of a
\* domain that has succeeded leads to both gauges of the domain holding its
\* dates, unless the process ends at the bind before.
C9_RetryEveryCycle ==
    /\ [][pc'["main"] = "exited" => pc["main"] \in {"start", "listen", "exited"}]_vars
    /\ \A d \in Labels :
          [](( pc["main"] = "serving" /\ d \in SeqRange(domains)) => <>BgProbing(d))
    /\ \A t \in Tasks : \A d \in Labels : \A w \in Windows :
          (pc[t] = "withStart" /\ Cur(t) = d /\ win[t] = w)
             ~> \/ /\ certStart[d] = Some(Unix(w.start))
                   /\ certExpiry[d] = Some(Unix(w.expiry))
                \/ ~Alive

\* While the process serves, the goroutine probes again a domain of which
\* every probe so far has failed, another domain having succeeded.
C9_Witness ==
    /\ pc["main"] = "serving"
    /\ pc["bg"] = "exec"
    /\ idx["bg"] = 1
    /\ lastWin[Cur("bg")] = None
    /\ \E d \in Labels : d # Cur("bg") /\ lastWin[d] # None
=============================================================================
